---- MODULE Spec2Model ----
(***************************************************************************)
(* Model of src/benchmark.c: the two 5-limb multipliers                    *)
(* fe_mul_schoolbook and fe_mul_karatsuba_opt, the benchmark loop and      *)
(* main.                                                                   *)
(*                                                                         *)
(* TLC integers are 32 bits wide, the program's are 64 and 128 bits wide.  *)
(* A machine word is therefore a little-endian sequence of base-2^13       *)
(* digits: a uint64_t is 5 digits (top digit < 2^12), a __uint128_t is 10  *)
(* digits (top digit < 2^11).  52 bits are exactly 4 digits, so `& MASK52` *)
(* keeps digits 1..4 and `>> 52` drops them.  Every arithmetic operator    *)
(* returns the wrapped value the C operator returns, and alongside it      *)
(* whether the exact result left the container.  The arithmetic is written *)
(* as functions, which evaluate their arguments once.                      *)
(***************************************************************************)
EXTENDS Integers, Sequences, FiniteSets

\* ---------------------------------------------------------------- digits
\* widths of fe_limb (uint64_t), of __uint128_t, and of a limb (MASK52, >> 52)
Bits64 == 64
Bits128 == 128
LimbBits == 52

\* a limb is four digits
Len52 == 4
DigitBits == LimbBits \div Len52
Base == 2 ^ DigitBits
\* 64 = 4*13 + 12 and 128 = 9*13 + 11
Len64 == (Bits64 + DigitBits - 1) \div DigitBits
Top64 == 2 ^ (Bits64 - DigitBits * (Len64 - 1))
Len128 == (Bits128 + DigitBits - 1) \div DigitBits
Top128 == 2 ^ (Bits128 - DigitBits * (Len128 - 1))

Word == Seq(Int)
\* a value together with whether computing it left the container
Chain == [v : Word, w : BOOLEAN]

\* F applied to the value of v, v being evaluated once
With(v, F(_)) == CHOOSE res \in {F(x) : x \in {v}} : TRUE

\* carry/borrow propagation over column values, from column k on
PropFrom[cols \in Word, k \in Nat, cin \in Int, acc \in Word] ==
  IF k > Len(cols) THEN Append(acc, cin)
  ELSE PropFrom[cols, k + 1, (cols[k] + cin) \div Base, Append(acc, (cols[k] + cin) % Base)]

\* the digits of the column values; the result has one more entry than
\* cols: the carry (or borrow, negative) out of the top column
Prop[cols \in Word] == PropFrom[cols, 1, 0, <<>>]

\* the exact result s (digits and a carry out) reduced to 64 bits
Fit64[s \in Word] ==
  [v |-> [k \in 1..Len64 |-> IF k = Len64 THEN s[k] % Top64 ELSE s[k]],
   w |-> s[Len64 + 1] # 0 \/ s[Len64] >= Top64]

\* the exact result s (digits and a carry out) reduced to 128 bits
Fit128[s \in Word] ==
  [v |-> [k \in 1..Len128 |-> IF k = Len128 THEN s[k] % Top128 ELSE s[k]],
   w |-> s[Len128 + 1] # 0 \/ s[Len128] >= Top128]

Zero64 == [k \in 1..Len64 |-> 0]
Zero128 == [k \in 1..Len128 |-> 0]

\* uint64_t + uint64_t
Add64[x \in Word, y \in Word] == Fit64[Prop[[k \in 1..Len64 |-> x[k] + y[k]]]]

\* __uint128_t + __uint128_t
Add128[x \in Word, y \in Word] == Fit128[Prop[[k \in 1..Len128 |-> x[k] + y[k]]]]

\* __uint128_t - __uint128_t
Sub128[x \in Word, y \in Word] == Fit128[Prop[[k \in 1..Len128 |-> x[k] - y[k]]]]

\* (__uint128_t)x * y for uint64_t x, y: the nine columns of a product of
\* two five-digit numbers
Mul64[x \in Word, y \in Word] ==
  Fit128[Prop[<< x[1]*y[1],
                 x[1]*y[2] + x[2]*y[1],
                 x[1]*y[3] + x[2]*y[2] + x[3]*y[1],
                 x[1]*y[4] + x[2]*y[3] + x[3]*y[2] + x[4]*y[1],
                 x[1]*y[5] + x[2]*y[4] + x[3]*y[3] + x[4]*y[2] + x[5]*y[1],
                 x[2]*y[5] + x[3]*y[4] + x[4]*y[3] + x[5]*y[2],
                 x[3]*y[5] + x[4]*y[4] + x[5]*y[3],
                 x[4]*y[5] + x[5]*y[4],
                 x[5]*y[5],
                 0 >>]]

\* bitwise AND of two digits
BitAnd[d \in Int, m \in Int] ==
  IF m = Base - 1 THEN d
  ELSE IF d = 0 \/ m = 0 THEN 0
  ELSE (d % 2) * (m % 2) + 2 * BitAnd[d \div 2, m \div 2]

\* x & y for a __uint128_t x and a uint64_t y (y is zero-extended)
And128[x \in Word, y \in Word] ==
  [k \in 1..Len128 |-> IF k <= Len64 THEN BitAnd[x[k], y[k]] ELSE 0]

\* (fe_limb)x: the low 64 bits of a __uint128_t
Cast64[x \in Word] == [k \in 1..Len64 |-> IF k = Len64 THEN x[k] % Top64 ELSE x[k]]

\* (__uint128_t)x for a uint64_t x
Cast128[x \in Word] == [k \in 1..Len128 |-> IF k <= Len64 THEN x[k] ELSE 0]

\* x >> (n digits) for __uint128_t x
Shift128[x \in Word, n \in Nat] ==
  [k \in 1..Len128 |-> IF k + n <= Len128 THEN x[k + n] ELSE 0]

\* a shift by 39 bits (three digits) instead of 52
Shr52_short(x) == Shift128[x, Len52 - 1]

\* x >> 52 for __uint128_t x
Shr52(x) == Shift128[x, Len52]

\* a limb is below 2^52
Below52(x) == \A k \in (Len52 + 1)..Len64 : x[k] = 0

\* x * 16 + d in uint64_t
HexStep[x \in Word, d \in Int] ==
  Fit64[Prop[[k \in 1..Len64 |-> x[k] * 16 + (IF k = 1 THEN d ELSE 0)]]].v

\* the uint64_t written as the first n digits of the hexadecimal literal h,
\* most significant hexadecimal digit first
HexVal[h \in Word, n \in Nat] ==
  IF n = 0 THEN Zero64 ELSE HexStep[HexVal[h, n - 1], h[n]]

Hex(h) == HexVal[h, Len(h)]

MASK52 == Hex(<<15,15,15,15,15,15,15,15,15,15,15,15,15>>)

\* the cast without the mask
AndMask52_cast(x) == Cast64[x]

\* a mask of fourteen hexadecimal digits instead of thirteen
AndMask52_wide(x) == Cast64[And128[x, Hex(<<15,15,15,15,15,15,15,15,15,15,15,15,15,15>>)]]

\* (fe_limb)(x & MASK52)
AndMask52(x) == Cast64[And128[x, MASK52]]

\* ------------------------------------------------- left-to-right chains
\* A chain value carries the wrapped result v and whether any step of the
\* chain so far carried or borrowed out of its container.
Val(x) == [v |-> x, w |-> FALSE]
Join[s \in Chain, w \in BOOLEAN] == [v |-> s.v, w |-> s.w \/ w]
Plus64[acc \in Chain, y \in Word] == Join[Add64[acc.v, y], acc.w]
Plus[acc \in Chain, y \in Word] == Join[Add128[acc.v, y], acc.w]
Minus[acc \in Chain, y \in Word] == Join[Sub128[acc.v, y], acc.w]

\* x[idx[1]] + x[idx[2]] + ... + x[idx[n]] in uint64_t, left to right
\* (idx holds C indices)
Sum64[x \in Seq(Word), idx \in Word, n \in Nat] ==
  IF n = 1 THEN Val(x[idx[1] + 1])
  ELSE Plus64[Sum64[x, idx, n - 1], x[idx[n] + 1]]

Named(name, flag) == IF flag THEN {name} ELSE {}

\* the stores with r[4] left out
StoreLimbs_skiptop(r, vals) == [k \in 1..5 |-> IF k = 5 THEN r[k] ELSE vals[k]]

\* r[0..4] = vals: the five stores into the output buffer
StoreLimbs(r, vals) == [k \in 1..5 |-> vals[k]]

\* ------------------------------------------------------------ schoolbook
\* tmp[0..8] as they stand after line 72
SchoolbookTmp(a, b) ==
  LET m(i, j) == Mul64[a[i + 1], b[j + 1]].v
  IN  << Val(m(0,0)),
         Plus[Val(m(0,1)), m(1,0)],
         Plus[Plus[Val(m(0,2)), m(1,1)], m(2,0)],
         Plus[Plus[Plus[Val(m(0,3)), m(1,2)], m(2,1)], m(3,0)],
         Plus[Plus[Plus[Plus[Val(m(0,4)), m(1,3)], m(2,2)], m(3,1)], m(4,0)],
         Plus[Plus[Plus[Val(m(1,4)), m(2,3)], m(3,2)], m(4,1)],
         Plus[Plus[Val(m(2,4)), m(3,3)], m(4,2)],
         Plus[Val(m(3,4)), m(4,3)],
         Val(m(4,4)) >>

\* lines 74-79: x[k] are tmp[0..4] after the carry has been added
SchoolbookCarry(t) ==
  LET x0 == Val(t[1])
      x1 == Plus[Val(t[2]), Shr52(x0.v)]
      x2 == Plus[Val(t[3]), Shr52(x1.v)]
      x3 == Plus[Val(t[4]), Shr52(x2.v)]
      x4 == Plus[Val(t[5]), Shr52(x3.v)]
  IN  <<x0, x1, x2, x3, x4>>

fe_mul_schoolbook(a, b, r) ==
  With(SchoolbookTmp(a, b), LAMBDA tmp :
  With(SchoolbookCarry([k \in 1..9 |-> tmp[k].v]), LAMBDA x :
    [r |-> StoreLimbs(r, [k \in 1..5 |-> AndMask52(x[k].v)]),
     t |-> [k \in 1..9 |-> tmp[k].v],
     x |-> [k \in 1..5 |-> x[k].v],
     w |-> UNION ({Named(<<"tmp", k - 1>>, tmp[k].w) : k \in 1..9}
                  \cup {Named(<<"tmp+carry", k - 1>>, x[k].w) : k \in 1..5})]))

\* ------------------------------------------------------------- karatsuba
\* the product m of two limb sums, with whether a limb sum left 64 bits
Product[m \in Chain, w64 \in BOOLEAN] == [v |-> m.v, w |-> m.w, w64 |-> w64]
SumTimes[sa \in Chain, sb \in Chain] == Product[Mul64[sa.v, sb.v], sa.w \/ sb.w]

\* both limb sums taken over b
SumProduct_bb(a, b, idx) == SumTimes[Sum64[b, idx, Len(idx)], Sum64[b, idx, Len(idx)]]

\* (__uint128_t)(a[i]+a[j]+...) * (b[i]+b[j]+...): the limb sums are formed
\* in uint64_t, the product in __uint128_t
SumProduct(a, b, idx) == SumTimes[Sum64[a, idx, Len(idx)], Sum64[b, idx, Len(idx)]]

\* p1..p14, lines 86-101
KaratsubaProducts(a, b) ==
  << SumProduct(a, b, <<0>>),
     SumProduct(a, b, <<0, 1>>),
     SumProduct(a, b, <<1>>),
     SumProduct(a, b, <<0, 2>>),
     SumProduct(a, b, <<0, 1, 2, 3>>),
     SumProduct(a, b, <<1, 3>>),
     SumProduct(a, b, <<0, 2, 4>>),
     SumProduct(a, b, <<4>>),
     SumProduct(a, b, <<1, 3, 4>>),
     SumProduct(a, b, <<2>>),
     SumProduct(a, b, <<2, 3>>),
     SumProduct(a, b, <<3>>),
     SumProduct(a, b, <<2, 4>>),
     SumProduct(a, b, <<3, 4>>) >>

\* lines 104-105 (p is p1..p14 as values)
K_S1(p) == Plus[Val(p[1]), p[3]]
K_S3(p) == Minus[Val(p[10]), p[8]]

\* p10 << 1
K_shl(p) == Add128[p[10], p[10]]

\* lines 108-116
K_c0(p) == Val(p[1])
K_c1(p) == Minus[Val(p[2]), K_S1(p).v]
\* c2 without "- p1"
K_c2_missing(p) == Minus[Plus[Val(p[3]), p[4]], p[10]]
\* c2 = p3 - p1 + p4 - p10: the same value, subtracting before adding
K_c2_reordered(p) == Minus[Plus[Minus[Val(p[3]), p[1]], p[4]], p[10]]
K_c2(p) == Minus[Minus[Plus[Val(p[3]), p[4]], p[1]], p[10]]
K_c3(p) ==
  Plus[Plus[Minus[Minus[Minus[Plus[Minus[Val(p[5]), p[2]], K_S1(p).v], p[4]], p[6]], p[11]], p[10]], p[12]]
\* c4 with p10 instead of p10 << 1
K_c4_nodouble(p) ==
  Minus[Plus[Minus[Minus[Plus[Minus[Val(p[7]), p[4]], p[6]], p[3]], p[13]], p[10]], p[12]]
K_c4(p) ==
  Minus[Plus[Minus[Minus[Plus[Minus[Val(p[7]), p[4]], p[6]], p[3]], p[13]], K_shl(p).v], p[12]]
K_c5(p) == Minus[Minus[Plus[Minus[Val(p[9]), p[6]], p[11]], p[10]], p[14]]
K_c6(p) == Minus[Plus[Val(p[13]), p[12]], K_S3(p).v]
K_c7(p) == Minus[Minus[Val(p[14]), p[12]], p[8]]
K_c8(p) == Val(p[8])

KaratsubaCoeffs(p) ==
  <<K_c0(p), K_c1(p), K_c2(p), K_c3(p), K_c4(p), K_c5(p), K_c6(p), K_c7(p), K_c8(p)>>

\* lines 119-123: y[k] are c0..c5 after the carry has been added
KaratsubaCarry(c) ==
  LET y0 == Val(c[1])
      y1 == Plus[Val(c[2]), Shr52(y0.v)]
      y2 == Plus[Val(c[3]), Shr52(y1.v)]
      y3 == Plus[Val(c[4]), Shr52(y2.v)]
      y4 == Plus[Val(c[5]), Shr52(y3.v)]
      y5 == Plus[Val(c[6]), Shr52(y4.v)]
  IN  <<y0, y1, y2, y3, y4, y5>>

fe_mul_karatsuba_opt(a, b, r) ==
  With(KaratsubaProducts(a, b), LAMBDA prod :
  With([k \in 1..14 |-> prod[k].v], LAMBDA p :
  With(KaratsubaCoeffs(p), LAMBDA co :
  With(KaratsubaCarry([k \in 1..9 |-> co[k].v]), LAMBDA y :
    [r |-> StoreLimbs(r, [k \in 1..5 |-> AndMask52(y[k].v)]),
     t |-> [k \in 1..9 |-> co[k].v],
     x |-> [k \in 1..6 |-> y[k].v],
     w |-> UNION ({Named(<<"sum", k>>, prod[k].w64) : k \in 1..14}
                  \cup {Named(<<"p", k>>, prod[k].w) : k \in 1..14}
                  \cup {Named(<<"S", 1>>, K_S1(p).w), Named(<<"S", 3>>, K_S3(p).w),
                        Named(<<"shl", 10>>, K_shl(p).w)}
                  \cup {Named(<<"c", k - 1>>, co[k].w) : k \in 1..9}
                  \cup {Named(<<"c+carry", k - 1>>, y[k].w) : k \in 1..6})]))))

\* ------------------------------------------------------------- harness
\* one limb as print_fe's "%014lx" writes it: hexadecimal digits, most
\* significant first, zero-padded to at least 14 of them
Bit(x, n) == (x[(n \div DigitBits) + 1] \div (2 ^ (n % DigitBits))) % 2
HexDigit(x, m) == Bit(x, 4*m) + 2 * Bit(x, 4*m + 1) + 4 * Bit(x, 4*m + 2) + 8 * Bit(x, 4*m + 3)
HexWidth(x) ==
  LET used == {m \in 0..15 : HexDigit(x, m) # 0}
  IN  IF \E m \in used : m >= 14 THEN 1 + CHOOSE m \in used : \A q \in used : q <= m
      ELSE 14
FormatWidth[x \in Word, n \in Nat] == [k \in 1..n |-> HexDigit(x, n - k)]
Format014lx(x) == FormatWidth[x, HexWidth(x)]

\* the line print_fe writes: limb 4 first, limb 0 last
print_fe(r) == [k \in 1..5 |-> Format014lx(r[6 - k])]

\* the operand arrays of main, lines 147-160
MainA == << Hex(<<1,2,3,4,5,6,7,8,9,10,11,12,13,14,15,0>>),
            Hex(<<0,15,14,13,12,11,10,9,8,7,6,5,4,3,2,1>>),
            Hex(<<1,1,1,1,1,1,1,1,1,1,1,1,1,1,1,1>>),
            Hex(<<2,2,2,2,2,2,2,2,2,2,2,2,2,2,2,2>>),
            Hex(<<3,3,3,3,3,3,3,3,3,3,3,3,3,3,3,3>>) >>
MainB == << Hex(<<1,1,1,1,1,1,1,1,1,1,1,1,1,1,1,1>>),
            Hex(<<2,2,2,2,2,2,2,2,2,2,2,2,2,2,2,2>>),
            Hex(<<3,3,3,3,3,3,3,3,3,3,3,3,3,3,3,3>>),
            Hex(<<4,4,4,4,4,4,4,4,4,4,4,4,4,4,4,4>>),
            Hex(<<5,5,5,5,5,5,5,5,5,5,5,5,5,5,5,5>>) >>

\* fe_limb r1[5]={0}, r2[5]={0}
ZeroFe == [k \in 1..5 |-> Zero64]

\* ---------------------------------------------------------------- inputs
\* iterations of the benchmark loop: ITER is 1000000 in the source
MaxIter == 2
MainIter == 50

One64 == Hex(<<1>>)
Max52 == MASK52
Valid(x) == \A k \in 1..5 : Below52(x[k])
Masked(x) == [k \in 1..5 |-> Cast64[And128[Cast128[x[k]], MASK52]]]

\* operands a caller can pass: every limb pattern of zero and 2^52 - 1, every
\* limb pattern of 1 and 2^52 - 1, the unit element, the operands of main
\* reduced to 52 bits per limb, and all limbs 2^51 or 2^52 - 2
UnitFe == [k \in 1..5 |-> IF k = 1 THEN One64 ELSE Zero64]
Operands ==
  [1..5 -> {Zero64, Max52}] \cup [1..5 -> {One64, Max52}]
    \cup {UnitFe, Masked(MainA), Masked(MainB)}
    \cup {[k \in 1..5 |-> x] : x \in {Hex(<<8,0,0,0,0,0,0,0,0,0,0,0,0>>),
                                       Hex(<<15,15,15,15,15,15,15,15,15,15,15,15,14>>)}}

\* what the output buffer can hold on entry
StaleFe == [k \in 1..5 |-> Hex(<<13,14,10,13,11,14,14,15,13,14,10,13,11,14,14,15>>)]
Buffers == {ZeroFe, StaleFe}

NoCall == [t |-> <<>>, x |-> <<>>, w |-> {}]

VARIABLES a, b, r1, r2, pc, i, iterations, ok, sb, ka, out

vars == <<a, b, r1, r2, pc, i, iterations, ok, sb, ka, out>>

Start ==
  /\ pc = "warm1"
  /\ i = 0
  /\ ok = 1
  /\ sb = NoCall
  /\ ka = NoCall
  /\ out = <<>>

\* the multipliers called by any caller on valid operands
Init ==
  /\ a \in Operands
  /\ b \in Operands
  /\ r1 \in Buffers
  /\ r2 = r1
  /\ iterations = MaxIter
  /\ Start

\* main, lines 147-161
InitMain ==
  /\ a = MainA
  /\ b = MainB
  /\ r1 = ZeroFe
  /\ r2 = ZeroFe
  /\ iterations = MainIter
  /\ Start

Locals(res) == [t |-> res.t, x |-> res.x, w |-> res.w]

CallSchoolbook ==
  \E res \in {fe_mul_schoolbook(a, b, r1)} :
     /\ r1' = res.r
     /\ sb' = Locals(res)

CallKaratsuba ==
  \E res \in {fe_mul_karatsuba_opt(a, b, r2)} :
     /\ r2' = res.r
     /\ ka' = Locals(res)

\* line 164
WarmupSchoolbook ==
  /\ pc = "warm1"
  /\ CallSchoolbook
  /\ pc' = "warm2"
  /\ UNCHANGED <<a, b, r2, i, iterations, ok, ka, out>>

\* line 165
WarmupKaratsuba ==
  /\ pc = "warm2"
  /\ CallKaratsuba
  /\ pc' = "bench1"
  /\ i' = 0
  /\ UNCHANGED <<a, b, r1, iterations, ok, sb, out>>

\* lines 132-133 under line 167
BenchSchoolbook ==
  /\ pc = "bench1"
  /\ i < iterations
  /\ CallSchoolbook
  /\ i' = i + 1
  /\ UNCHANGED <<a, b, r2, pc, iterations, ok, ka, out>>

BenchSchoolbookEnd ==
  /\ pc = "bench1"
  /\ ~(i < iterations)
  /\ pc' = "bench2"
  /\ i' = 0
  /\ UNCHANGED <<a, b, r1, r2, iterations, ok, sb, ka, out>>

\* lines 132-133 under line 168
BenchKaratsuba ==
  /\ pc = "bench2"
  /\ i < iterations
  /\ CallKaratsuba
  /\ i' = i + 1
  /\ UNCHANGED <<a, b, r1, pc, iterations, ok, sb, out>>

BenchKaratsubaEnd ==
  /\ pc = "bench2"
  /\ ~(i < iterations)
  /\ pc' = "print"
  /\ UNCHANGED <<a, b, r1, r2, i, iterations, ok, sb, ka, out>>

\* lines 173-177
PrintResults ==
  /\ pc = "print"
  /\ out' = <<print_fe(r1), print_fe(r2)>>
  /\ pc' = "compare"
  /\ UNCHANGED <<a, b, r1, r2, i, iterations, ok, sb, ka>>

\* lines 179-181
Compare ==
  /\ pc = "compare"
  /\ ok' = IF \E k \in 1..5 : r1[k] # r2[k] THEN 0 ELSE 1
  /\ pc' = "done"
  /\ UNCHANGED <<a, b, r1, r2, i, iterations, sb, ka, out>>

Next ==
  \/ WarmupSchoolbook
  \/ WarmupKaratsuba
  \/ BenchSchoolbook
  \/ BenchSchoolbookEnd
  \/ BenchKaratsuba
  \/ BenchKaratsubaEnd
  \/ PrintResults
  \/ Compare

Spec == Init /\ [][Next]_vars

SpecMain == InitMain /\ [][Next]_vars

TypeOK ==
  /\ pc \in {"warm1", "warm2", "bench1", "bench2", "print", "compare", "done"}
  /\ i \in 0..iterations
  /\ ok \in {0, 1}

\* ------------------------------------------------------ exact arithmetic
\* Integers of 260 bits as 20 digits, for stating what the product is.
Len260 == 5 * Len52

\* sum x[k] * 2^(52*k) modulo 2^260: limb k starts at digit 4*(k-1) + 1
ToInt260[x \in Seq(Word)] ==
  LET d(k, n) == LET j == n - Len52 * (k - 1)
                 IN  IF j \in 1..Len(x[k]) THEN x[k][j] ELSE 0
  IN  SubSeq(Prop[[n \in 1..Len260 |-> d(1, n) + d(2, n) + d(3, n) + d(4, n) + d(5, n)]],
             1, Len260)

\* (A * B) modulo 2^260: column n collects A[m] * B[n + 1 - m], m = 1..n
MulLow260[A \in Word, B \in Word] ==
  LET t(m, n) == IF m <= n THEN A[m] * B[n + 1 - m] ELSE 0
      col(n) == t(1, n) + t(2, n) + t(3, n) + t(4, n) + t(5, n)
                + t(6, n) + t(7, n) + t(8, n) + t(9, n) + t(10, n)
                + t(11, n) + t(12, n) + t(13, n) + t(14, n) + t(15, n)
                + t(16, n) + t(17, n) + t(18, n) + t(19, n) + t(20, n)
  IN  SubSeq(Prop[[n \in 1..Len260 |-> col(n)]], 1, Len260)

Called1 == pc # "warm1"
Called2 == pc \notin {"warm1", "warm2"}

\* --------------------------------------------------------------- claims

\* C1: for valid operands fe_mul_karatsuba_opt and fe_mul_schoolbook write
\* the same five output limbs, and the comparison of main says so.
C1_Equivalence ==
  /\ (Called2 /\ Valid(a) /\ Valid(b)) => \A k \in 1..5 : r2[k] = r1[k]
  /\ (pc = "done" /\ Valid(a) /\ Valid(b)) => ok = 1
C1_Witness ==
  /\ pc = "done"
  /\ a = Masked(MainA)
  /\ b = Masked(MainB)
  /\ r1 = r2
  /\ \A k \in 1..5 : r1[k] # Zero64

\* C2: for valid operands the output of each multiplier is the low half of
\* the exact product: sum r[i]*2^(52i) = (A*B) mod 2^260.
C2_LowHalf ==
  (Called1 /\ Valid(a) /\ Valid(b)) =>
     LET low == MulLow260[ToInt260[a], ToInt260[b]]
     IN  /\ ToInt260[r1] = low
         /\ Called2 => ToInt260[r2] = low
\* a product whose high half is not zero and whose carries are not zero
C2_Witness ==
  /\ pc = "done"
  /\ Valid(a) /\ Valid(b)
  /\ sb.t[9] # Zero128
  /\ Shr52(sb.x[4]) # Zero128
  /\ ToInt260[r2] = MulLow260[ToInt260[a], ToInt260[b]]

\* C3: a call leaves a and b unchanged and overwrites all of r with a value
\* that depends on (a, b) only: after any number of calls r is what one call
\* into a zeroed buffer gives, whatever r held before.
C3_Frame ==
  [][ /\ a' = a
      /\ b' = b
      /\ (pc' # "warm1") => r1' = fe_mul_schoolbook(a, b, ZeroFe).r
      /\ (pc' \notin {"warm1", "warm2"}) => r2' = fe_mul_karatsuba_opt(a, b, ZeroFe).r ]_vars
\* both benchmark loops have run to their end on a non-zero product
C3_Witness ==
  /\ pc = "print"
  /\ i = iterations
  /\ i > 0
  /\ r1 # ZeroFe
  /\ r2 = fe_mul_karatsuba_opt(a, b, ZeroFe).r

\* C4: for valid operands r[0], r[1], r[2], r[3] of both multipliers are
\* below 2^52.
C4_Bounds ==
  /\ (Called1 /\ Valid(a) /\ Valid(b)) => \A k \in 1..4 : Below52(r1[k])
  /\ (Called2 /\ Valid(a) /\ Valid(b)) => \A k \in 1..4 : Below52(r2[k])
\* every accumulator below the top one carried out
C4_Witness ==
  /\ pc = "done"
  /\ \A k \in 1..4 : Shr52(sb.x[k]) # Zero128 /\ Shr52(ka.x[k]) # Zero128
  /\ \A k \in 1..4 : Below52(r1[k]) /\ Below52(r2[k])

\* C5 as stated: some valid operand pair makes a multiplier return
\* r[4] >= 2^52.
C5_TopLimbUnbounded ==
  \E x \in Operands, y \in Operands :
     \/ ~Below52(fe_mul_schoolbook(x, y, ZeroFe).r[5])
     \/ ~Below52(fe_mul_karatsuba_opt(x, y, ZeroFe).r[5])

\* C5 amended: the top limb is masked like the others, so r[4] < 2^52 for
\* every valid operand pair; what the top accumulator holds above 52 bits is
\* dropped.
C5_TopLimbBounded ==
  /\ (Called1 /\ Valid(a) /\ Valid(b)) => Below52(r1[5])
  /\ (Called2 /\ Valid(a) /\ Valid(b)) => Below52(r2[5])
\* the top accumulator holds more than 52 bits
C5_Witness ==
  /\ pc = "done"
  /\ Shr52(sb.x[5]) # Zero128
  /\ Shr52(ka.x[5]) # Zero128
  /\ Below52(r1[5]) /\ Below52(r2[5])

\* C6: with a = (0,0,0,0,0) both multipliers return (0,0,0,0,0) for any b.
C6_ZeroAbsorption ==
  /\ (Called1 /\ a = ZeroFe) => r1 = ZeroFe
  /\ (Called2 /\ a = ZeroFe) => r2 = ZeroFe
C6_Witness ==
  /\ pc = "done"
  /\ a = ZeroFe
  /\ b = Masked(MainB)
  /\ r1 = ZeroFe /\ r2 = ZeroFe

\* C7: with b = (1,0,0,0,0) and a valid, both multipliers return a.
C7_Identity ==
  /\ (Called1 /\ Valid(a) /\ b = UnitFe) => r1 = a
  /\ (Called2 /\ Valid(a) /\ b = UnitFe) => r2 = a
C7_Witness ==
  /\ pc = "done"
  /\ b = UnitFe
  /\ a = Masked(MainA)
  /\ r1 = a /\ r2 = a

\* the result line of the header comment, line 23
Documented ==
  << <<0,0,11,6,0,11,6,0,11,12,10,8,4,4>>,
     <<0,4,1,15,13,11,9,7,5,6,5,4,11,4>>,
     <<0,13,13,13,13,13,13,13,13,14,14,15,12,11>>,
     <<0,9,10,11,12,13,15,0,1,2,2,1,15,13>>,
     <<0,9,4,15,9,1,8,15,4,8,11,13,15,0>> >>

\* C8: the fixed operands of main are masked to 52 bits before they reach
\* the multipliers, and on them both multipliers yield the identical result
\* (the verdict is YES).
C8_MaskedOnLoad ==
  /\ Valid(a) /\ Valid(b)
  /\ Called2 => r1 = r2
  /\ pc = "done" => ok = 1

\* what main prints for the operands it does pass, limbs of up to 63 bits:
\* the result line of the header comment, twice
PrintsDocumented ==
  pc \in {"compare", "done"} => out = <<Documented, Documented>>

\* the values whose computation can leave [0, 2^128)
MayWrap == {<<"S", 3>>, <<"c", 3>>, <<"c", 4>>, <<"c", 6>>}

\* C9 as stated: for valid operands no limb sum, product, convolution sum,
\* left-to-right intermediate of S1, S3, c1..c8 or carry-added accumulator
\* leaves its container.
C9_NoWrap ==
  (Valid(a) /\ Valid(b)) => (sb.w = {} /\ ka.w = {})

\* C9 amended: for valid operands no 64-bit limb sum, no product, no
\* convolution sum, no carry-added accumulator and no intermediate of S1, c1,
\* c2, c5, c7 leaves its container; S3 = p10 - p8 and the left-to-right
\* intermediates of c3, c4 and c6 can go below zero and wrap modulo 2^128
\* (c6 exactly when S3 does); the final c3 and c4 are back in range, equal
\* to the convolution sums tmp[3] and tmp[4].
C9_WrapOnlyInS3c3c4c6 ==
  (Valid(a) /\ Valid(b)) =>
     /\ sb.w = {}
     /\ ka.w \subseteq MayWrap
     /\ (<<"c", 6>> \in ka.w) <=> (<<"S", 3>> \in ka.w)
     /\ Called2 => (ka.t[4] = sb.t[4] /\ ka.t[5] = sb.t[5])
C9_Witness ==
  /\ pc = "done"
  /\ Valid(a) /\ Valid(b)
  /\ ka.w = MayWrap
  /\ sb.w = {}

\* C10: every coefficient c0..c8 that fe_mul_karatsuba_opt reconstructs,
\* before a carry is added, equals the convolution sum tmp[0..8] of
\* fe_mul_schoolbook.
C10_Coefficients ==
  (Called2 /\ Valid(a) /\ Valid(b)) => \A k \in 1..9 : ka.t[k] = sb.t[k]
====
